---- MODULE Spec2Model ----
(***************************************************************************)
(* Model of pyrobot.indicators.Indicators: the indicator routines          *)
(* (change_in_price, rsi, sma, ema), the registry _current_indicators and  *)
(* refresh(), acting on a symbol-partitioned price table.                  *)
(*                                                                         *)
(* Floating point values are modelled as exact extended rationals:         *)
(*   <<n, d>> with d > 0 and gcd(n, d) = 1  a finite number n/d            *)
(*   <<0, 0>>                               NaN (pandas' undefined)        *)
(*   <<1, 0>>, <<-1, 0>>                    +inf, -inf                     *)
(***************************************************************************)
EXTENDS Integers, Sequences, FiniteSets, TLC

\* ---------------------------------------------------------------- bounds
\* Rows per symbol the table may grow to by appended rows.
MaxRows == 3
\* Rows per symbol of the table handed to Indicators.__init__.
InitRows == MaxRows - 1
\* Operations (indicator invocations, appends, refreshes) per behaviour.
MaxOps == 4

\* ------------------------------------------------------------ input sets
Symbols == {"A", "B"}
\* Close prices: a low and a high one.
CloseValues == {1, 2}
\* Arguments the routines are invoked with.
SmaPeriods == {-5, 0, 3}
EmaPeriods == {0, 5}
RsiPeriods == {0, 2}
Methods == {"wilders", "other"}
Alphas == {0}

\* ------------------------------------------------------- float arithmetic
NaN == <<0, 0>>
PosInf == <<1, 0>>
NegInf == <<-1, 0>>

Abs(n) == IF n < 0 THEN -n ELSE n

RECURSIVE GCD(_, _)
GCD(a, b) == IF b = 0 THEN a ELSE GCD(b, a % b)

Sign(n) == IF n > 0 THEN 1 ELSE IF n < 0 THEN -1 ELSE 0

\* n/d for integers n, d, with the IEEE results for d = 0.
Frac(n, d) ==
    IF d = 0 THEN <<Sign(n), 0>>
    ELSE LET g == GCD(Abs(n), Abs(d))
             s == Sign(d)
         IN  <<(s * n) \div g, (s * d) \div g>>

Num(n) == <<n, 1>>
IsNaN(v) == v = NaN
IsInf(v) == v[2] = 0 /\ v[1] # 0
IsFinite(v) == v[2] > 0

FAdd(a, b) ==
    IF IsNaN(a) \/ IsNaN(b) THEN NaN
    ELSE IF IsInf(a) /\ IsInf(b) THEN (IF a = b THEN a ELSE NaN)
    ELSE IF IsInf(a) THEN a
    ELSE IF IsInf(b) THEN b
    ELSE Frac(a[1] * b[2] + b[1] * a[2], a[2] * b[2])

FNeg(a) == <<-a[1], a[2]>>

FSub(a, b) == FAdd(a, FNeg(b))

FMul(a, b) ==
    IF IsNaN(a) \/ IsNaN(b) THEN NaN
    ELSE IF IsInf(a) \/ IsInf(b)
         THEN <<Sign(a[1]) * Sign(b[1]), 0>>
    ELSE Frac(a[1] * b[1], a[2] * b[2])

FDiv(a, b) ==
    IF IsNaN(a) \/ IsNaN(b) THEN NaN
    ELSE IF IsInf(a) THEN (IF IsInf(b) THEN NaN
                           ELSE IF b[1] < 0 THEN FNeg(a) ELSE a)
    ELSE IF IsInf(b) THEN Num(0)
    ELSE Frac(a[1] * b[2], a[2] * b[1])

\* x >= 0 and x < 0 as numpy evaluates them: False on NaN.
FGeZero(a) == ~IsNaN(a) /\ a[1] >= 0
FLtZero(a) == ~IsNaN(a) /\ a[1] < 0
FAbs(a) == <<Abs(a[1]), a[2]>>

\* ------------------------------------------------ pandas series transforms
\* Series.diff(): undefined on the first row, x[i] - x[i-1] after it.
Diff(x) ==
    [i \in 1..Len(x) |-> IF i = 1 THEN NaN ELSE FSub(x[i], x[i - 1])]

RECURSIVE SumRange(_, _, _)
SumRange(x, lo, hi) ==
    IF lo > hi THEN Num(0) ELSE FAdd(x[lo], SumRange(x, lo + 1, hi))

\* A rolling mean that averages the rows available when the window is not yet
\* full (min_periods = 1).
RollingMeanPartial(x, period) ==
    [i \in 1..Len(x) |->
        IF period = 0 THEN NaN
        ELSE IF i < period THEN FDiv(SumRange(x, 1, i), Num(i))
        ELSE FDiv(SumRange(x, i - period + 1, i), Num(period))]

\* Series.rolling(window=period).mean() for period >= 0 (min_periods = period):
\* undefined until period rows are in the window; an empty window has no mean.
RollingMean(x, period) ==
    [i \in 1..Len(x) |->
        IF period = 0 \/ i < period THEN NaN
        ELSE FDiv(SumRange(x, i - period + 1, i), Num(period))]

\* Weighted sums of Series.ewm(span=period).mean() (adjust=True):
\* num[i] = x[i] + (1 - a) num[i-1], den[i] = 1 + (1 - a) den[i-1], a = 2/(period+1).
RECURSIVE EwmNum(_, _, _)
EwmNum(x, i, w) ==
    IF i = 1 THEN x[1] ELSE FAdd(x[i], FMul(w, EwmNum(x, i - 1, w)))

RECURSIVE EwmDen(_, _)
EwmDen(i, w) ==
    IF i = 1 THEN Num(1) ELSE FAdd(Num(1), FMul(w, EwmDen(i - 1, w)))

EwmMean(x, period) ==
    LET w == FSub(Num(1), Frac(2, period + 1))
    IN  [i \in 1..Len(x) |-> FDiv(EwmNum(x, i, w), EwmDen(i, w))]

\* ------------------------------------------------------------ the table
\* Derived columns the routines write; close is the input column.
DerivedCols ==
    {"change_in_price", "up_day", "down_day", "ewma_up", "ewma_down",
     "rsi", "sma", "ema"}

EmptyCol == [s \in Symbols |-> <<>>]

\* A frame with the given close prices and no derived column.
NewFrame(close) ==
    [close |-> close, present |-> {}, data |-> [c \in DerivedCols |-> EmptyCol]]

Column(frame, c) == frame.data[c]

\* A column write that keeps only the rows on which the written column has a
\* value: a group whose first value is undefined loses its first row.
SetColDropUndefined(frame, c, values) ==
    [frame EXCEPT !.present = @ \cup {c},
                  !.data[c] = values,
                  !.close = [s \in Symbols |->
                               IF Len(values[s]) > 0 /\ IsNaN(values[s][1])
                               THEN Tail(@[s]) ELSE @[s]]]

\* price_frame[c] = values: adds the column or overwrites it in place.
SetCol(frame, c, values) ==
    [frame EXCEPT !.present = @ \cup {c}, !.data[c] = values]

\* price_frame.drop(labels=cols, axis=1, inplace=True)
DropCols(frame, cols) ==
    [frame EXCEPT !.present = @ \ cols,
                  !.data = [c \in DerivedCols |-> IF c \in cols THEN EmptyCol ELSE @[c]]]

\* The close column of one symbol group, in chronological order.
Closes(frame, s) == [i \in 1..Len(frame.close[s]) |-> Num(frame.close[s][i])]

\* StockFrame.add_rows: one new row for each symbol of rows, placed last in
\* its group; the derived columns hold no value on a new row.
AddRows(frame, rows) ==
    [close |-> [s \in Symbols |->
                   IF s \in DOMAIN rows THEN Append(frame.close[s], rows[s])
                   ELSE frame.close[s]],
     present |-> frame.present,
     data |-> [c \in DerivedCols |-> [s \in Symbols |->
                   IF c \in frame.present /\ s \in DOMAIN rows
                   THEN Append(frame.data[c][s], NaN)
                   ELSE frame.data[c][s]]]]

\* ---------------------------------------------------------- the registry
\* _current_indicators: a dict, so a sequence of records in first-insertion
\* order with one record per name; func is the bound method of that name.
NoArgs == [k \in {} |-> 0]

Names(reg) == [i \in 1..Len(reg) |-> reg[i].name]

HasName(reg, name) == \E i \in 1..Len(reg) : reg[i].name = name

\* A registration that keeps the arguments already stored for a name.
RegisterFirstWins(reg, name, args) ==
    IF HasName(reg, name) THEN reg
    ELSE Append(reg, [name |-> name, args |-> args])

\* self._current_indicators[name] = {}; ...['args'] = locals_data; ...['func'] = self.<name>
Register(reg, name, args) ==
    IF HasName(reg, name)
    THEN [i \in 1..Len(reg) |->
            IF reg[i].name = name THEN [name |-> name, args |-> args] ELSE reg[i]]
    ELSE Append(reg, [name |-> name, args |-> args])

\* ------------------------------------------------------ indicator routines
\* A routine maps a state [frame, reg] to [frame, reg, outcome]; outcome is
\* "ok" or the exception that left the routine.
Result(frame, reg, outcome) == [frame |-> frame, reg |-> reg, outcome |-> outcome]

\* Series.diff() over the whole close column, not per symbol group: the first
\* row of a group is compared with the last row of the group before it.
change_in_price_ungrouped(st) ==
    LET reg1 == Register(st.reg, "change_in_price", NoArgs)
        a == Closes(st.frame, "A")
        b == Closes(st.frame, "B")
        diffs == [s \in Symbols |->
                    IF s = "A" THEN Diff(a)
                    ELSE [i \in 1..Len(b) |->
                            IF i = 1 THEN (IF Len(a) = 0 THEN NaN ELSE FSub(b[1], a[Len(a)]))
                            ELSE FSub(b[i], b[i - 1])]]
    IN  Result(SetCol(st.frame, "change_in_price", diffs), reg1, "ok")

change_in_price(st) ==
    LET reg1 == Register(st.reg, "change_in_price", NoArgs)
        diffs == [s \in Symbols |-> Diff(Closes(st.frame, s))]
    IN  Result(SetCol(st.frame, "change_in_price", diffs), reg1, "ok")

UpDay(x) == [i \in 1..Len(x) |-> IF FGeZero(x[i]) THEN x[i] ELSE Num(0)]

DownDay(x) == [i \in 1..Len(x) |-> IF FLtZero(x[i]) THEN FAbs(x[i]) ELSE Num(0)]

\* relative_strength_index = 100.0 - (100.0 / (1.0 + relative_strength))
RsiFormula(rs) == FSub(Num(100), FDiv(Num(100), FAdd(Num(1), rs)))

\* np.where(relative_strength_index == 0, 100, 100 - (100 / (1 + relative_strength_index)))
RsiValue(up, down) ==
    LET relative_strength == FDiv(up, down)
        relative_strength_index == RsiFormula(relative_strength)
    IN  IF relative_strength_index = Num(0) THEN Num(100)
        ELSE RsiFormula(relative_strength_index)

RsiHelpers == {"ewma_up", "ewma_down", "down_day", "up_day", "change_in_price"}

\* method is stored in the record and not read; ewm(span=period) raises
\* ValueError for a span below 1, after up_day and down_day were written.
rsi(st, period, method) ==
    LET reg1 == Register(st.reg, "rsi", [period |-> period, method |-> method])
        st1 == IF "change_in_price" \notin st.frame.present
               THEN change_in_price([frame |-> st.frame, reg |-> reg1])
               ELSE Result(st.frame, reg1, "ok")
        cip == Column(st1.frame, "change_in_price")
        up == [s \in Symbols |-> UpDay(cip[s])]
        down == [s \in Symbols |-> DownDay(cip[s])]
        f2 == SetCol(SetCol(st1.frame, "up_day", up), "down_day", down)
        ewma_up == [s \in Symbols |-> EwmMean(up[s], period)]
        ewma_down == [s \in Symbols |-> EwmMean(down[s], period)]
        f3 == SetCol(SetCol(f2, "ewma_up", ewma_up), "ewma_down", ewma_down)
        values == [s \in Symbols |->
                     [i \in 1..Len(ewma_up[s]) |-> RsiValue(ewma_up[s][i], ewma_down[s][i])]]
    IN  IF period < 1
        THEN Result(f2, st1.reg, "ValueError")
        ELSE Result(DropCols(SetCol(f3, "rsi", values), RsiHelpers), st1.reg, "ok")

\* The record is stored before pandas sees the period; rolling(window=period)
\* raises ValueError for a negative window and accepts 0.
sma(st, period) ==
    LET reg1 == Register(st.reg, "sma", [period |-> period])
        values == [s \in Symbols |-> RollingMean(Closes(st.frame, s), period)]
    IN  IF period < 0
        THEN Result(st.frame, reg1, "ValueError")
        ELSE Result(SetCol(st.frame, "sma", values), reg1, "ok")

\* ewm(span=period) raises ValueError for a span below 1; alpha is stored in
\* the record and not read by the computation.
ema(st, period, alpha) ==
    LET reg1 == Register(st.reg, "ema", [period |-> period, alpha |-> alpha])
        values == [s \in Symbols |-> EwmMean(Closes(st.frame, s), period)]
    IN  IF period < 1
        THEN Result(st.frame, reg1, "ValueError")
        ELSE Result(SetCol(st.frame, "ema", values), reg1, "ok")

\* indicator_function(**indicator_argument)
Invoke(st, rec) ==
    CASE rec.name = "change_in_price" -> change_in_price(st)
      [] rec.name = "rsi" -> rsi(st, rec.args.period, rec.args.method)
      [] rec.name = "sma" -> sma(st, rec.args.period)
      [] rec.name = "ema" -> ema(st, rec.args.period, rec.args.alpha)

\* refresh() whose loop stops one record early.
RECURSIVE RefreshFromShort(_, _, _, _)
RefreshFromShort(st, i, size, calls) ==
    IF Len(st.reg) # size
    THEN [frame |-> st.frame, reg |-> st.reg, outcome |-> "RuntimeError", calls |-> calls]
    ELSE IF i >= size
    THEN [frame |-> st.frame, reg |-> st.reg, outcome |-> "ok", calls |-> calls]
    ELSE LET rec == st.reg[i]
             r == Invoke(st, rec)
         IN  IF r.outcome # "ok"
             THEN [frame |-> r.frame, reg |-> r.reg, outcome |-> r.outcome,
                   calls |-> Append(calls, rec)]
             ELSE RefreshFromShort([frame |-> r.frame, reg |-> r.reg], i + 1, size,
                                   Append(calls, rec))

\* The for loop of refresh() from the i-th key on; size is the number of
\* records when the loop began: a dict that changed size ends the iteration
\* with RuntimeError. calls lists the invocations made so far.
RECURSIVE RefreshFrom(_, _, _, _)
RefreshFrom(st, i, size, calls) ==
    IF Len(st.reg) # size
    THEN [frame |-> st.frame, reg |-> st.reg, outcome |-> "RuntimeError", calls |-> calls]
    ELSE IF i > size
    THEN [frame |-> st.frame, reg |-> st.reg, outcome |-> "ok", calls |-> calls]
    ELSE LET rec == st.reg[i]
             r == Invoke(st, rec)
         IN  IF r.outcome # "ok"
             THEN [frame |-> r.frame, reg |-> r.reg, outcome |-> r.outcome,
                   calls |-> Append(calls, rec)]
             ELSE RefreshFrom([frame |-> r.frame, reg |-> r.reg], i + 1, size,
                              Append(calls, rec))

Reverse(seq) == [i \in 1..Len(seq) |-> seq[Len(seq) + 1 - i]]

\* refresh() that replays the records last-registered first.
refresh_reversed(st) ==
    LET r == RefreshFrom([frame |-> st.frame, reg |-> Reverse(st.reg)], 1, Len(st.reg), <<>>)
    IN  [r EXCEPT !.reg = Reverse(@)]

refresh(st) == RefreshFrom(st, 1, Len(st.reg), <<>>)

\* -------------------------------------------------------------- portfolio
\* pyrobot.portfolio.Portfolio: positions is a dict from symbol to a position
\* record, modelled as a function whose domain is the set of held symbols.
PortfolioSymbols == {"MSFT", "AAPL", "TSLA"}

\* self.positions = {}
NoPositions == [s \in {} |-> 0]

None == "None"

\* The optional arguments of add_position: its defaults, and the values the
\* unit tests pass.
Purchases ==
    {[quantity |-> 0, purchase_price |-> 0, purchase_date |-> None],
     [quantity |-> 10, purchase_price |-> 3, purchase_date |-> "2020-01-31"]}

\* The dicts handed to add_positions: the required keys alone, or all keys.
PositionDicts ==
    {[symbol |-> s, asset_type |-> "equity"] : s \in PortfolioSymbols}
    \cup {[symbol |-> s, asset_type |-> "equity", quantity |-> 2,
           purchase_price |-> 4, purchase_date |-> "2020-01-31"] : s \in PortfolioSymbols}

MaxPositions == 2

\* The arguments add_positions is given: a list of dicts, or the dict of the
\* docstring, which is no list.
PositionLists ==
    {[kind |-> "list", items |-> items] :
        items \in UNION {[1..n -> PositionDicts] : n \in 0..MaxPositions}}
    \cup {[kind |-> "dict", items |-> <<>>]}

\* self.positions[symbol] = record
Put(positions, symbol, record) ==
    [s \in (DOMAIN positions) \cup {symbol} |->
        IF s = symbol THEN record ELSE positions[s]]

\* del self.positions[symbol]
Del(positions, symbol) == [s \in (DOMAIN positions) \ {symbol} |-> positions[s]]

\* position.get(key, default)
Get(position, key, default) ==
    IF key \in DOMAIN position THEN position[key] ELSE default

Position(symbol, asset_type, quantity, purchase_price, purchase_date) ==
    [symbol |-> symbol, quantity |-> quantity, purchase_price |-> purchase_price,
     purchase_date |-> purchase_date, asset_type |-> asset_type]

\* A method maps positions to [positions, value, outcome]: the dict after the
\* call, the value returned, and "ok" or the exception raised.
Returned(positions, value, outcome) ==
    [positions |-> positions, value |-> value, outcome |-> outcome]

add_position(positions, symbol, asset_type, quantity, purchase_price, purchase_date) ==
    LET record == Position(symbol, asset_type, quantity, purchase_price, purchase_date)
    IN  Returned(Put(positions, symbol, record), record, "ok")

\* The for loop of add_positions from the i-th position on.
RECURSIVE AddFrom(_, _, _, _)
AddFrom(positions, items, i, return_dict) ==
    IF i > Len(items) THEN Returned(positions, return_dict, "ok")
    ELSE LET position == items[i]
             symbol == position["symbol"]
             record == Position(symbol, position["asset_type"],
                                Get(position, "quantity", 0),
                                Get(position, "purchase_price", 0),
                                Get(position, "purchase_date", None))
         IN  AddFrom(Put(positions, symbol, record), items, i + 1,
                     Put(return_dict, symbol, record))

\* add_positions that makes the positions of the list the portfolio.
add_positions_replacing(positions, list) ==
    IF list.kind = "list"
    THEN LET r == AddFrom(NoPositions, list.items, 1, NoPositions)
         IN  Returned(r.value, r.value, "ok")
    ELSE Returned(positions, None, "TypeError")

add_positions(positions, list) ==
    IF list.kind = "list" THEN AddFrom(positions, list.items, 1, NoPositions)
    ELSE Returned(positions, None, "TypeError")

\* remove_position that reports a removal whether or not the symbol is held.
remove_position_unchecked(positions, symbol) ==
    Returned(Del(positions, symbol), <<TRUE, symbol \o " was successfully removed.">>, "ok")

remove_position(positions, symbol) ==
    IF symbol \in DOMAIN positions
    THEN Returned(Del(positions, symbol),
                  <<TRUE, symbol \o " was successfully removed.">>, "ok")
    ELSE Returned(positions,
                  <<FALSE, symbol \o " did not exist in the porfolio.">>, "ok")

in_portfolio(positions, symbol) ==
    IF symbol \in DOMAIN positions THEN TRUE ELSE FALSE

\* ---------------------------------------------------------- state machine
VARIABLES
    frame,      \* _price_data_frame.frame: the price table
    registry,   \* _current_indicators
    twin,       \* a second Indicators object [frame, reg] that is given the same
                \* calls on a table differing in the close prices of symbol "A" only
    last,       \* the most recent operation: its name, arguments, outcome, the
                \* invocations a refresh made, and the rows appended just before it
    fresh,      \* rows appended since the last indicator invocation or refresh
    ops,        \* operations performed
    positions,          \* Portfolio.positions
    positions_count,    \* Portfolio.positions_count
    returned,   \* the most recent Portfolio call: its name, arguments, value, outcome
    recent      \* for each symbol, the kind of the most recent call that named it

vars == <<frame, registry, twin, last, fresh, ops,
          positions, positions_count, returned, recent>>

\* The fields of the Indicators objects, and those of the Portfolio.
indicatorVars == <<frame, registry, twin, last, fresh, ops>>

portfolioVars == <<positions, positions_count, returned, recent>>

\* Portfolio.__init__
PortfolioInit ==
    /\ positions = NoPositions
    /\ positions_count = 0
    /\ returned = [op |-> "init", args |-> <<>>, value |-> None, outcome |-> "ok"]
    /\ recent = [s \in PortfolioSymbols |-> "none"]

\* The close prices of the table handed to __init__: symbol "A" alternates
\* upwards from the low price, symbol "B" downwards from the high price.
InitClose ==
    [s \in Symbols |->
        [i \in 1..InitRows |-> IF (s = "A") = (i % 2 = 1) THEN 1 ELSE 2]]

\* The twin table: the same keys and the same rows for "B"; every close
\* price of "A" is another one (low and high swapped).
Mirror(v) == IF v = 1 THEN 2 ELSE 1

TwinClose(close) == [close EXCEPT !["A"] = [i \in 1..Len(@) |-> Mirror(@[i])]]

\* A table as handed to __init__, possibly with a change_in_price column
\* supplied with the data.
InitFrame(close, withChange) ==
    IF withChange
    THEN SetCol(NewFrame(close), "change_in_price",
                [s \in Symbols |-> Diff(Closes(NewFrame(close), s))])
    ELSE NewFrame(close)

Op(name, args, r, rows) ==
    [op |-> name, args |-> args, outcome |-> r.outcome,
     calls |-> IF name = "refresh" THEN r.calls ELSE <<>>, rows |-> rows]

Init ==
    \E withChange \in BOOLEAN :
        /\ frame = InitFrame(InitClose, withChange)
        /\ registry = <<>>
        /\ twin = [frame |-> InitFrame(TwinClose(InitClose), withChange), reg |-> <<>>]
        /\ last = [op |-> "init", args |-> NoArgs, outcome |-> "ok",
                   calls |-> <<>>, rows |-> 0]
        /\ fresh = 0
        /\ ops = 0
        /\ PortfolioInit

Here == [frame |-> frame, reg |-> registry]

\* The common effect of calling a routine on both objects.
Apply(name, args, r, rt) ==
    /\ ops < MaxOps
    /\ frame' = r.frame
    /\ registry' = r.reg
    /\ twin' = [frame |-> rt.frame, reg |-> rt.reg]
    /\ last' = Op(name, args, r, fresh)
    /\ fresh' = 0
    /\ ops' = ops + 1
    /\ UNCHANGED portfolioVars

ChangeInPrice ==
    Apply("change_in_price", NoArgs, change_in_price(Here), change_in_price(twin))

Rsi ==
    \E period \in RsiPeriods, method \in Methods :
        Apply("rsi", [period |-> period, method |-> method],
              rsi(Here, period, method), rsi(twin, period, method))

Sma ==
    \E period \in SmaPeriods :
        Apply("sma", [period |-> period], sma(Here, period), sma(twin, period))

Ema ==
    \E period \in EmaPeriods, alpha \in Alphas :
        Apply("ema", [period |-> period, alpha |-> alpha],
              ema(Here, period, alpha), ema(twin, period, alpha))

Refresh ==
    Apply("refresh", NoArgs, refresh(Here), refresh(twin))

\* StockFrame.add_rows with the latest bar of every symbol; the twin table
\* gets rows with the same keys.
AppendRows ==
    \E rows \in [Symbols -> CloseValues] :
        /\ ops < MaxOps
        /\ \A s \in Symbols : Len(frame.close[s]) < MaxRows
        /\ frame' = AddRows(frame, rows)
        /\ twin' = [twin EXCEPT !.frame = AddRows(@, [rows EXCEPT !["A"] = Mirror(@)])]
        /\ last' = [op |-> "append_rows", args |-> NoArgs, outcome |-> "ok",
                    calls |-> <<>>, rows |-> 0]
        /\ fresh' = fresh + 1
        /\ ops' = ops + 1
        /\ UNCHANGED registry
        /\ UNCHANGED portfolioVars

Next ==
    \/ ChangeInPrice
    \/ Rsi
    \/ Sma
    \/ Ema
    \/ Refresh
    \/ AppendRows

Spec == Init /\ [][Next]_vars

\* ----------------------------------------------------------------- claims
IndicatorOps == {"change_in_price", "rsi", "sma", "ema"}
IndicatorCols == {"change_in_price", "rsi", "sma", "ema"}

\* The records of reg from position lo to position hi.
Records(reg, lo, hi) == SubSeq(reg, lo, hi)

\* The state of an Indicators object built on a table holding the rows of
\* frame and no derived column.
Rebuilt(f) == [frame |-> NewFrame(f.close), reg |-> <<>>]

SmaThenEma == <<[name |-> "sma", args |-> [period |-> 3]],
                [name |-> "ema", args |-> [period |-> 5, alpha |-> 0]]>>

\* sma(period=3) then ema(period=5) invoked once on the full table.
Direct(f) == ema(sma(Rebuilt(f), 3), 5, 0).frame

\* C1: replay correctness. When sma(period=3) then ema(period=5) are the
\* registered indicators and refresh() has run on the grown table, refresh
\* succeeded and the sma and ema columns equal those of invoking sma(period=3)
\* then ema(period=5) once on the full table.
C1_ReplayEqualsDirect ==
    (last.op = "refresh" /\ registry = SmaThenEma) =>
        /\ last.outcome = "ok"
        /\ {"sma", "ema"} \subseteq frame.present
        /\ Column(frame, "sma") = Column(Direct(frame), "sma")
        /\ Column(frame, "ema") = Column(Direct(frame), "ema")

\* Rows were appended after sma(3) and ema(5), then refresh() ran, and the
\* grown table has a defined moving average.
C1_Witness ==
    /\ last.op = "refresh"
    /\ last.rows >= 1
    /\ registry = SmaThenEma
    /\ \E s \in Symbols : IsFinite(Column(frame, "sma")[s][Len(frame.close[s])])

\* The stored arguments of rec are ones pandas rejects: a negative rolling
\* window, or an ewm span below 1.
Rejected(rec) ==
    CASE rec.name = "sma" -> rec.args.period < 0
      [] rec.name \in {"ema", "rsi"} -> rec.args.period < 1
      [] OTHER -> FALSE

\* The refresh step just taken ended with a failed recompute.
RefreshFailed == last'.op = "refresh" /\ last'.outcome = "ValueError"

\* The invocations of the failed refresh are those of the first k records, in
\* order, and the k-th is the one that fails.
StoppedAtFailure ==
    LET k == Len(last'.calls)
    IN  /\ k >= 1
        /\ k <= Len(registry)
        /\ last'.calls = Records(registry, 1, k)
        /\ \A j \in 1..(k - 1) : ~Rejected(registry[j])
        /\ Rejected(registry[k])

\* The column of every indicator registered after the failing one is as it
\* was before the refresh.
LaterColumnsKept ==
    \A j \in (Len(last'.calls) + 1)..Len(registry) :
        /\ Column(frame', registry[j].name) = Column(frame, registry[j].name)
        /\ (registry[j].name \in frame'.present) = (registry[j].name \in frame.present)

\* C7: refresh() is fail-fast. When the recompute of the k-th registered
\* indicator fails in a refresh, the failure is the outcome of refresh(), the
\* invocations made are those of the first k records, and the column of every
\* indicator registered after position k keeps its pre-refresh value.
C7_RefreshFailFast ==
    [][RefreshFailed => (StoppedAtFailure /\ LaterColumnsKept)]_vars

\* rec is registered before the record named name.
Before(reg, i, name) == \E j \in (i + 1)..Len(reg) : reg[j].name = name

\* C8: refresh() invokes the registered indicators in registration order, each
\* with the arguments stored in its record: the invocations of a refresh are
\* the records of the registry from the first on, all of them when it
\* succeeds; and when change_in_price is registered before rsi, the rsi column
\* a successful refresh leaves is the one computed from the current rows.
C8_RefreshInRegistrationOrder ==
    [][last'.op = "refresh" =>
          /\ Len(last'.calls) <= Len(registry)
          /\ last'.calls = Records(registry, 1, Len(last'.calls))
          /\ last'.outcome = "ok" => last'.calls = registry
          /\ \A i \in 1..Len(registry) :
                (/\ last'.outcome = "ok"
                 /\ registry[i].name = "change_in_price"
                 /\ Before(registry, i, "rsi"))
                => \E j \in (i + 1)..Len(registry) :
                      /\ registry[j].name = "rsi"
                      /\ Column(frame', "rsi")
                            = Column(Invoke(Rebuilt(frame'), registry[j]).frame, "rsi")]_vars

\* A successful refresh of a grown table replayed change_in_price and then rsi,
\* which depends on it.
C8_Witness ==
    /\ last.op = "refresh"
    /\ last.outcome = "ok"
    /\ last.rows >= 1
    /\ Len(last.calls) >= 2
    /\ last.calls[1].name = "change_in_price"
    /\ last.calls[2].name = "rsi"
    /\ \E s \in Symbols : IsFinite(Column(frame, "rsi")[s][Len(frame.close[s])])

\* C10: symbol isolation. Two tables with the same keys and the same rows for
\* symbol "B", given the same indicator invocations, appends and refreshes,
\* hold the same change_in_price, sma, ema and rsi values on every row of "B".
C10_SymbolIsolation ==
    /\ frame.close["B"] = twin.frame.close["B"]
    /\ frame.present = twin.frame.present
    /\ \A c \in IndicatorCols : Column(frame, c)["B"] = Column(twin.frame, c)["B"]

\* After a refresh of a grown table the rsi and sma values of symbol "A"
\* differ between the two tables, and symbol "B" has a defined rsi value on
\* its newest row.
C10_Witness ==
    /\ last.op = "refresh"
    /\ last.outcome = "ok"
    /\ last.rows >= 1
    /\ {"rsi", "sma"} \subseteq frame.present
    /\ Column(frame, "rsi")["A"] # Column(twin.frame, "rsi")["A"]
    /\ Column(frame, "sma")["A"] # Column(twin.frame, "sma")["A"]
    /\ IsFinite(Column(frame, "rsi")["B"][Len(frame.close["B"])])

\* C2: registration order across overwrites. Starting from an empty registry,
\* successful invocations of rsi, then sma, then rsi again with other arguments
\* leave the records of the registry, in iteration order, as exactly rsi, sma.
C2_RsiSmaRsiLeavesRsiSma ==
    [][(/\ ops = 2
        /\ Len(registry) >= 2
        /\ registry[1].name = "rsi"
        /\ ~Rejected(registry[1])
        /\ HasName(registry, "sma")
        /\ last.op = "sma"
        /\ last.outcome = "ok"
        /\ last'.op = "rsi"
        /\ last'.outcome = "ok"
        /\ last'.args # registry[1].args)
       => Names(registry') = <<"rsi", "sma">>]_vars

\* C3: refresh() creates no record. The names of the registry and their order
\* are the same after refresh() as before it, and the registry does not change
\* size while refresh() iterates it.
C3_RefreshCreatesNoRecord ==
    [][last'.op = "refresh" =>
          /\ Names(registry') = Names(registry)
          /\ last'.outcome # "RuntimeError"]_vars

\* The change_in_price column rsi reads: the one in the table, or the one it
\* computes when the table has none.
ChangeRead(f, s) ==
    IF "change_in_price" \in f.present THEN Column(f, "change_in_price")[s]
    ELSE Diff(Closes(f, s))

\* The smoothed averages of the up-moves and of the down-moves of symbol s.
AvgUp(f, s, period) == EwmMean(UpDay(ChangeRead(f, s)), period)
AvgDown(f, s, period) == EwmMean(DownDay(ChangeRead(f, s)), period)

RsiSucceeded == last'.op = "rsi" /\ last'.outcome = "ok"

\* C4: rsi saturates at 100. On every row whose smoothed average of down-moves
\* is 0 while that of up-moves is greater than 0, the rsi column written by
\* rsi(period) holds exactly 100.
C4_RsiSaturatesAt100 ==
    [][RsiSucceeded =>
          \A s \in Symbols : \A i \in 1..Len(frame.close[s]) :
              LET up == AvgUp(frame, s, last'.args.period)[i]
                  down == AvgDown(frame, s, last'.args.period)[i]
              IN  (down = Num(0) /\ IsFinite(up) /\ up[1] > 0)
                  => Column(frame', "rsi")[s][i] = Num(100)]_vars

\* C5: the standard formula, once. On every row whose smoothed average of
\* down-moves is greater than 0, the rsi column written by rsi(period) holds
\* 100 - 100/(1 + RS) with RS = avgUp/avgDown.
C5_RsiIsStandardFormula ==
    [][RsiSucceeded =>
          \A s \in Symbols : \A i \in 1..Len(frame.close[s]) :
              LET up == AvgUp(frame, s, last'.args.period)[i]
                  down == AvgDown(frame, s, last'.args.period)[i]
              IN  (IsFinite(down) /\ down[1] > 0)
                  => Column(frame', "rsi")[s][i] = RsiFormula(FDiv(up, down))]_vars

\* The step just taken is an invocation the specification calls invalid:
\* sma with a period of 0 or less, or rsi with a method other than wilders.
InvalidInvocation ==
    \/ last'.op = "sma" /\ last'.args.period <= 0
    \/ last'.op = "rsi" /\ last'.args.method # "wilders"

\* C6: invalid parameters are rejected with no column written. sma(period) with
\* period <= 0 and rsi(period, method) with a method other than wilders fail,
\* and the table has the same columns and values after the call as before it.
C6_InvalidParameterRejected ==
    [][InvalidInvocation => (last'.outcome # "ok" /\ frame' = frame)]_vars

\* The step just taken repeats the indicator invocation before it, with the
\* same arguments and no rows appended in between.
RepeatedInvocation ==
    /\ last.op \in IndicatorOps
    /\ last'.op = last.op
    /\ last'.args = last.args
    /\ ops' = ops + 1

\* C9: idempotence. Invoking an indicator twice in a row with identical
\* arguments leaves the table with the same columns and the same values in
\* every column as after the first invocation, and the registry unchanged.
C9_Idempotent ==
    [][RepeatedInvocation => (frame' = frame /\ registry' = registry)]_vars

\* The columns rsi creates for its intermediate results.
TransientCols == {"up_day", "down_day", "ewma_up", "ewma_down"}

\* C11: the columns rsi leaves. After rsi(period) returns, the transient
\* columns up_day, down_day, ewma_up and ewma_down are absent, the rsi column is
\* present, and a change_in_price column that was in the table before the call
\* is still present.
C11_RsiLeavesChangeInPrice ==
    [][RsiSucceeded =>
          /\ TransientCols \cap frame'.present = {}
          /\ "rsi" \in frame'.present
          /\ "change_in_price" \in frame.present
                => "change_in_price" \in frame'.present]_vars

\* The step just taken is an indicator invocation or a refresh.
Recomputed == last'.op \in IndicatorOps \cup {"refresh"}

\* C12: rows and input columns are kept. Every indicator invocation and every
\* refresh(), failed ones included, leaves the rows of every symbol group
\* (their number and their order) and the close price of every row as they
\* were; the columns it adds, overwrites or drops are derived columns, and
\* every column in the table has one value for each row.
C12_RowsAndInputsKept ==
    [][Recomputed =>
          /\ frame'.close = frame.close
          /\ frame'.present \subseteq DerivedCols
          /\ \A c \in frame'.present : \A s \in Symbols :
                Len(Column(frame', c)[s]) = Len(frame.close[s])]_vars

\* A successful rsi on a grown table added the rsi column and dropped columns,
\* next to an sma column written before the rows arrived.
C12_Witness ==
    /\ last.op = "rsi"
    /\ last.outcome = "ok"
    /\ last.rows >= 1
    /\ {"rsi", "sma"} \subseteq frame.present
    /\ "change_in_price" \notin frame.present
    /\ \E s \in Symbols : IsFinite(Column(frame, "rsi")[s][Len(frame.close[s])])

\* ------------------------------------------- one routine on a given table
\* A second specification: a table of close prices is handed to __init__ and
\* one routine is invoked on it.
SeriesRows == 5

SeriesPrices == {9, 10, 11, 12}

SeriesPeriods == 1..(SeriesRows + 1)

\* The closes of the scenario table.
ScenarioCloses == <<10, 11, 9, 9, 12>>

\* Every chronological sequence of at most SeriesRows close prices.
SeriesCloses == UNION {[1..n -> SeriesPrices] : n \in 0..SeriesRows}

\* The table: the rows of symbol "A" hold the given closes, those of symbol
\* "B" the same closes in the opposite order.
SeriesTable(close) ==
    NewFrame([s \in Symbols |-> IF s = "A" THEN close ELSE Reverse(close)])

InitSeries ==
    \E close \in SeriesCloses :
        /\ frame = SeriesTable(close)
        /\ registry = <<>>
        /\ twin = [frame |-> SeriesTable(close), reg |-> <<>>]
        /\ last = [op |-> "init", args |-> NoArgs, outcome |-> "ok",
                   calls |-> <<>>, rows |-> 0]
        /\ fresh = 0
        /\ ops = 0
        /\ PortfolioInit

SeriesSma ==
    \E period \in SeriesPeriods :
        /\ ops = 0
        /\ Apply("sma", [period |-> period], sma(Here, period), sma(twin, period))

SeriesChangeInPrice ==
    /\ ops = 0
    /\ Apply("change_in_price", NoArgs, change_in_price(Here), change_in_price(twin))

NextSeries ==
    \/ SeriesSma
    \/ SeriesChangeInPrice

SpecSeries == InitSeries /\ [][NextSeries]_vars

\* The sum of the close prices at positions lo..hi.
RECURSIVE Total(_, _, _)
Total(close, lo, hi) ==
    IF lo > hi THEN 0 ELSE close[lo] + Total(close, lo + 1, hi)

\* C13: the simple moving average. sma(period) with period >= 1 writes, for
\* every symbol group and every position i in it, an undefined value when
\* i < period and otherwise the arithmetic mean of the group's closes at
\* positions i-period+1..i; sma(period=2) on closes 10, 11, 9, 9, 12 writes
\* undefined, 10.5, 10, 9, 10.5.
C13_SmaIsWindowMean ==
    (last.op = "sma" /\ last.args.period >= 1) =>
        /\ last.outcome = "ok"
        /\ "sma" \in frame.present
        /\ \A s \in Symbols :
              /\ Len(Column(frame, "sma")[s]) = Len(frame.close[s])
              /\ \A i \in 1..Len(frame.close[s]) :
                    Column(frame, "sma")[s][i] =
                        IF i < last.args.period THEN NaN
                        ELSE Frac(Total(frame.close[s], i - last.args.period + 1, i),
                                  last.args.period)
        /\ (frame.close["A"] = ScenarioCloses /\ last.args.period = 2)
              => Column(frame, "sma")["A"]
                    = <<NaN, Frac(21, 2), Num(10), Num(9), Frac(21, 2)>>

\* sma(period=2) ran on the scenario table and wrote an undefined first value
\* and defined means after it.
C13_Witness ==
    /\ last.op = "sma"
    /\ last.args.period = 2
    /\ frame.close["A"] = ScenarioCloses
    /\ IsNaN(Column(frame, "sma")["A"][1])
    /\ Column(frame, "sma")["A"][2] = Frac(21, 2)

\* C14: the change in price. change_in_price() writes, for every symbol group,
\* an undefined value on the group's first row and close[i] - close[i-1] on
\* every later row i, i-1 being the previous row of the same symbol; closes
\* 10, 11, 9, 9, 12 give undefined, 1, -2, 0, 3.
C14_ChangeIsDifferenceInGroup ==
    last.op = "change_in_price" =>
        /\ last.outcome = "ok"
        /\ "change_in_price" \in frame.present
        /\ \A s \in Symbols :
              /\ Len(Column(frame, "change_in_price")[s]) = Len(frame.close[s])
              /\ \A i \in 1..Len(frame.close[s]) :
                    Column(frame, "change_in_price")[s][i] =
                        IF i = 1 THEN NaN
                        ELSE Num(frame.close[s][i] - frame.close[s][i - 1])
        /\ frame.close["A"] = ScenarioCloses
              => Column(frame, "change_in_price")["A"]
                    = <<NaN, Num(1), Num(-2), Num(0), Num(3)>>

\* change_in_price() ran on the scenario table; the first row of symbol "B"
\* follows the last row of symbol "A" and has no value.
C14_Witness ==
    /\ last.op = "change_in_price"
    /\ frame.close["A"] = ScenarioCloses
    /\ Len(frame.close["B"]) >= 2
    /\ IsNaN(Column(frame, "change_in_price")["B"][1])
    /\ Column(frame, "change_in_price")["A"][3] = Num(-2)

\* rec is one of the records of reg.
Holds(reg, rec) == \E i \in 1..Len(reg) : reg[i] = rec

\* C15: one record per name, last write wins. In every step the registry
\* holds at most one record for a name and no more records than there are
\* indicator names; after an invocation the record of its name holds the
\* arguments of that invocation; the record of every other name is kept as it
\* was by every invocation, refresh and append; and a refresh invokes with the
\* arguments the records held.
C15_LastWriteWins ==
    [][/\ \A i, j \in 1..Len(registry') :
             registry'[i].name = registry'[j].name => i = j
       /\ Len(registry') <= Cardinality(IndicatorOps)
       /\ last'.op \in IndicatorOps
             => Holds(registry', [name |-> last'.op, args |-> last'.args])
       /\ \A i \in 1..Len(registry) :
             registry[i].name # last'.op => Holds(registry', registry[i])
       /\ last'.op = "refresh"
             => \A k \in 1..Len(last'.calls) : Holds(registry, last'.calls[k])]_vars

\* sma was invoked again after other indicators were registered behind it:
\* the invocation failed, the sma column of an earlier invocation with other
\* arguments is in the table, and the record holds the latest arguments.
C15_Witness ==
    /\ last.op = "sma"
    /\ last.outcome = "ValueError"
    /\ "sma" \in frame.present
    /\ Len(registry) >= 2
    /\ registry[1] = [name |-> "sma", args |-> last.args]

\* ------------------------------------------------- the portfolio's calls
\* A third specification: the calls made on a Portfolio object, beside an
\* Indicators object that is left alone.
InitPortfolio ==
    /\ frame = InitFrame(InitClose, FALSE)
    /\ registry = <<>>
    /\ twin = [frame |-> InitFrame(TwinClose(InitClose), FALSE), reg |-> <<>>]
    /\ last = [op |-> "init", args |-> NoArgs, outcome |-> "ok",
               calls |-> <<>>, rows |-> 0]
    /\ fresh = 0
    /\ ops = 0
    /\ PortfolioInit

\* The common effect of a Portfolio call; no method assigns positions_count.
Call(name, args, r) ==
    /\ positions' = r.positions
    /\ returned' = [op |-> name, args |-> args, value |-> r.value, outcome |-> r.outcome]
    /\ UNCHANGED positions_count
    /\ UNCHANGED indicatorVars

AddPosition ==
    \E symbol \in PortfolioSymbols, purchase \in Purchases :
        /\ Call("add_position", <<symbol>>,
                add_position(positions, symbol, "equity", purchase.quantity,
                             purchase.purchase_price, purchase.purchase_date))
        /\ recent' = [recent EXCEPT ![symbol] = "add"]

\* The symbols the dicts of a list name.
Named(list) == {list.items[i]["symbol"] : i \in 1..Len(list.items)}

AddPositions ==
    \E list \in PositionLists :
        /\ Call("add_positions", <<list>>, add_positions(positions, list))
        /\ recent' = [s \in PortfolioSymbols |->
                        IF s \in Named(list) THEN "add" ELSE recent[s]]

RemovePosition ==
    \E symbol \in PortfolioSymbols :
        /\ Call("remove_position", <<symbol>>, remove_position(positions, symbol))
        /\ recent' = [recent EXCEPT ![symbol] = "remove"]

InPortfolio ==
    \E symbol \in PortfolioSymbols :
        /\ Call("in_portfolio", <<symbol>>,
                Returned(positions, in_portfolio(positions, symbol), "ok"))
        /\ UNCHANGED recent

NextPortfolio ==
    \/ AddPosition
    \/ AddPositions
    \/ RemovePosition
    \/ InPortfolio

SpecPortfolio == InitPortfolio /\ [][NextPortfolio]_vars

\* The step just taken is remove_position(symbol).
Removing(symbol) == returned'.op = "remove_position" /\ returned'.args = <<symbol>>

\* C16: removing a position. remove_position(symbol) on a held symbol returns
\* (True, '<symbol> was successfully removed.') and removes that symbol's
\* record; on a symbol not held it returns (False, '<symbol> did not exist in
\* the porfolio.') and removes nothing; in both cases the record of every
\* other symbol is as it was.
C16_RemovePosition ==
    [][\A symbol \in PortfolioSymbols : Removing(symbol) =>
          /\ symbol \in DOMAIN positions
                => returned'.value = <<TRUE, symbol \o " was successfully removed.">>
          /\ symbol \notin DOMAIN positions
                => returned'.value = <<FALSE, symbol \o " did not exist in the porfolio.">>
          /\ (symbol = "MSFT" /\ symbol \in DOMAIN positions)
                => returned'.value = <<TRUE, "MSFT was successfully removed.">>
          /\ (symbol = "AAPL" /\ symbol \notin DOMAIN positions)
                => returned'.value = <<FALSE, "AAPL did not exist in the porfolio.">>
          /\ DOMAIN positions' = (DOMAIN positions) \ {symbol}
          /\ \A s \in DOMAIN positions' : positions'[s] = positions[s]]_vars

\* MSFT was removed from a portfolio that holds another symbol.
C16_Witness ==
    /\ returned.op = "remove_position"
    /\ returned.value = <<TRUE, "MSFT was successfully removed.">>
    /\ DOMAIN positions # {}
    /\ recent["MSFT"] = "remove"

\* C17: membership follows the latest call. After any calls of add_position,
\* add_positions and remove_position, in_portfolio(symbol) is True exactly when
\* the most recent call that named the symbol was add_position or
\* add_positions, and False when no call added it or the latest removed it;
\* and a call of in_portfolio returns that value.
C17_InPortfolioIffLastAdded ==
    /\ \A s \in PortfolioSymbols : in_portfolio(positions, s) = (recent[s] = "add")
    /\ returned.op = "in_portfolio" => returned.value = (recent[returned.args[1]] = "add")

\* add_positions added two symbols after another symbol was removed.
C17_Witness ==
    /\ returned.op = "add_positions"
    /\ returned.outcome = "ok"
    /\ \E s \in PortfolioSymbols :
          /\ recent[s] = "remove"
          /\ ~in_portfolio(positions, s)
          /\ \A t \in PortfolioSymbols \ {s} :
                recent[t] = "add" /\ in_portfolio(positions, t)

\* C20: the position count. After any calls of add_position, add_positions and
\* remove_position, positions_count is the number of symbols held.
C20_PositionsCounted ==
    positions_count = Cardinality(DOMAIN positions)

\* Every name in the registry reg has its column in the table f.
Materialised(f, reg) == \A i \in 1..Len(reg) : reg[i].name \in f.present

\* C18: registered indicators stay materialised. When every registered name
\* has its column in the table, a successful indicator invocation or a
\* successful refresh() leaves a table in which every registered name has its
\* column again.
C18_RegisteredStayMaterialised ==
    [][(/\ Materialised(frame, registry)
        /\ Recomputed
        /\ last'.outcome = "ok")
       => Materialised(frame', registry')]_vars

\* The step just taken is an indicator invocation that raised.
InvocationFailed == last'.op \in IndicatorOps /\ last'.outcome # "ok"

\* C19: a failed invocation leaves the registry unchanged. When a call of sma,
\* ema, rsi or change_in_price raises, the names, the order and the stored
\* arguments of the registry are those before the call.
C19_FailedInvocationKeepsRegistry ==
    [][InvocationFailed => registry' = registry]_vars

====
